---- MODULE Spec2Model ----
(***************************************************************************)
(* Verification model of the healmymind backend's screening-test core:     *)
(*   - healmymind/validators.py  validate_test_answers                     *)
(*   - healmymind/utils.py       calculate_test_score                      *)
(*   - tests/serializers.py      SubmitTestSerializer.validate_answers,    *)
(*                               CreateTestSerializer.create               *)
(*   - scripts/seed.py           create_test_data (the PHQ-9 instrument)   *)
(* and of the utilities around it:                                         *)
(*   - healmymind/decorators.py  rate_limit, cache_response                *)
(*   - healmymind/middleware.py  RateLimitMiddleware                       *)
(*   - healmymind/pagination.py  CustomPagination, CursorPagination        *)
(*   - healmymind/utils.py       paginate_queryset, generate_token,        *)
(*                               verify_token                              *)
(*   - healmymind/signals.py     process_test_result                       *)
(* Each part has a specification of its own over the variables it uses;    *)
(* the other variables stay at their idle values.  In Spec a behaviour is  *)
(* one submission: Init draws the test definition the submission           *)
(* addresses and the answers mapping; the actions apply the three          *)
(* operations of the source to it.                                         *)
(***************************************************************************)
EXTENDS Integers, Sequences, FiniteSets, TLC

VARIABLES
    test,       \* the TestDefinition the submission addresses (rows of Test,
                \* Question, Option and ScoringRange, as stored)
    answers,    \* the answers mapping: a Python dict, kept in insertion
                \* order as a sequence of entries [k |-> key, v |-> value]
    outcome,    \* what validate_test_answers did with (answers, questions)
    accepted,   \* what SubmitTestSerializer.validate_answers did
    result,     \* what calculate_test_score returned
    tests,      \* the Test rows of the database with their Question, Option
                \* and ScoringRange rows, in creation order
    calls,      \* the invocations of validate and score running side by
                \* side, each with its arguments and its local variables
    debug,      \* settings.DEBUG
    now,        \* the clock, in seconds
    cache,      \* django.core.cache: key -> entry with its expiry time
    workers,    \* the requests in flight in the rate limiter, one per worker
    log,        \* the requests the rate limiter has decided, in order
    grading,    \* one classification of a total against the range tables
    pager,      \* one manual pagination: the items, the page asked for and
                \* the response
    feed,       \* one walk through a queryset with CursorPagination
    responses,  \* the responses served through cache_response, in order
    tokens,     \* the tokens issued and the verifications made of them
    history     \* the TestResult rows and the profiles' test_history

scoreVars == <<test, answers, outcome, accepted, result>>

rateVars == <<debug, now, cache, workers, log>>

sideVars == <<grading, pager, feed, responses, tokens, history>>

vars == <<test, answers, outcome, accepted, result,
          tests, calls, debug, now, cache, workers, log,
          grading, pager, feed, responses, tokens, history>>

\* nothing is being classified, paginated, served from the response cache,
\* issued or saved
SideIdle ==
    /\ grading = <<>>
    /\ pager = <<>>
    /\ feed = <<>>
    /\ responses = <<>>
    /\ tokens = <<>>
    /\ history = <<>>

(***************************************************************************)
(* Bounds of the model.                                                    *)
(***************************************************************************)
\* Answer values are drawn from -1..MaxVal.
MaxVal == 4
\* Tests with at most SmallTest questions get every ordered answers mapping
\* over their keys and one foreign key; larger ones get value profiles.
SmallTest == 2

(***************************************************************************)
(* str(): the decimal text of a non-negative integer, as Python's str()    *)
(* writes a primary key.                                                   *)
(***************************************************************************)
Digits == <<"0", "1", "2", "3", "4", "5", "6", "7", "8", "9">>

RECURSIVE StrOf(_)
StrOf(n) ==
    IF n < 10 THEN Digits[n + 1]
    ELSE StrOf(n \div 10) \o Digits[(n % 10) + 1]

(***************************************************************************)
(* Enumerations of the data model.                                         *)
(***************************************************************************)
TEST_TYPES == {"PHQ9", "GAD7", "PCL5"}

SEVERITY_LEVELS == {"MINIMAL", "MILD", "MODERATE", "SEVERE"}

Range(lo, hi, sev) == [min_score |-> lo, max_score |-> hi, severity |-> sev]

(***************************************************************************)
(* Small helpers over sequences.                                           *)
(***************************************************************************)
SeqToSet(s) == {s[i] : i \in 1..Len(s)}

RECURSIVE SumSeq(_)
SumSeq(s) == IF s = <<>> THEN 0 ELSE Head(s) + SumSeq(Tail(s))

(***************************************************************************)
(* The seeded instrument.  scripts/seed.py create_test_data creates the    *)
(* PHQ-9 test: nine questions (order 1..9), each with the four options     *)
(* 0..3 (order 1..4), and four ScoringRange rows.  On the fresh database   *)
(* the seed runs against, the nine questions get primary keys 1..9.        *)
(***************************************************************************)
SeedOptionValues == <<0, 1, 2, 3>>

SeedOptions ==
    [j \in 1..Len(SeedOptionValues) |-> [order |-> j, value |-> SeedOptionValues[j]]]

NumSeedQuestions == 9

SeedRanges ==
    << Range(0, 4, "MINIMAL"), Range(5, 9, "MILD"),
       Range(10, 14, "MODERATE"), Range(15, 27, "SEVERE") >>

SeededPHQ9 ==
    [ test_type      |-> "PHQ9",
      questions      |-> [i \in 1..NumSeedQuestions |->
                             [id |-> i, order |-> i, options |-> SeedOptions]],
      scoring_ranges |-> SeedRanges ]

(***************************************************************************)
(* CreateTestSerializer.create(validated_data): one Test row, one Question *)
(* row per entry of questions (with one Option row per entry of its        *)
(* options, none when the entry carries no options), and one ScoringRange  *)
(* row per entry of scoring_ranges, all stored as given.  first_id is the  *)
(* primary key the database hands to the first new Question.               *)
(***************************************************************************)
OptionsData(question_data) ==
    IF "options" \in DOMAIN question_data THEN question_data.options ELSE <<>>

CreateTest(validated_data, first_id) ==
    [ test_type      |-> validated_data.test_type,
      questions      |-> [i \in 1..Len(validated_data.questions) |->
                             [ id      |-> first_id + i - 1,
                               order   |-> validated_data.questions[i].order,
                               options |-> OptionsData(validated_data.questions[i]) ]],
      scoring_ranges |-> validated_data.scoring_ranges ]

(***************************************************************************)
(* Inputs of the administrative create path that the model enumerates:     *)
(* a two-question test and a seven-question test, each with two authored   *)
(* range tables, under each of the three type tags.                        *)
(***************************************************************************)
OptionRows(values) == [j \in 1..Len(values) |-> [order |-> j, value |-> values[j]]]

ShortQuestions ==
    << [order |-> 1, options |-> OptionRows(<<0, 1>>)],
       [order |-> 2, options |-> OptionRows(<<0, 1, 2>>)] >>

NumLongQuestions == 7

LongQuestions ==
    [i \in 1..NumLongQuestions |-> [order |-> i, options |-> SeedOptions]]

\* contiguous over 0..3, the short test's score domain
ShortRangesWhole == << Range(0, 1, "MILD"), Range(2, 3, "SEVERE") >>
\* a gap at 1
ShortRangesGap == << Range(0, 0, "MINIMAL"), Range(2, 3, "MODERATE") >>
\* contiguous over 0..21, the long test's score domain, GAD-7 cut-offs
LongRangesGad ==
    << Range(0, 4, "MINIMAL"), Range(5, 9, "MILD"),
       Range(10, 14, "MODERATE"), Range(15, 21, "SEVERE") >>
\* contiguous over 0..21, other cut-offs, authored out of order
LongRangesOther ==
    << Range(8, 21, "SEVERE"), Range(0, 7, "MINIMAL") >>

CreateInputs ==
    { [test_type |-> t, questions |-> d[1], scoring_ranges |-> d[2]] :
        t \in TEST_TYPES,
        d \in { <<ShortQuestions, ShortRangesWhole>>, <<ShortQuestions, ShortRangesGap>>,
                <<LongQuestions, LongRangesGad>>, <<LongQuestions, LongRangesOther>> } }

\* The tests a submission can address: the seeded one, or one created after
\* the seed (so its questions get the primary keys after the seeded nine).
TestDefinitions ==
    {SeededPHQ9} \cup {CreateTest(d, NumSeedQuestions + 1) : d \in CreateInputs}

(***************************************************************************)
(* The answers mappings the model enumerates for a test.                   *)
(***************************************************************************)
Values == -1..MaxVal

QuestionKeys(t) == {StrOf(t.questions[i].id) : i \in 1..Len(t.questions)}

\* a key that is no question's primary key
ForeignKey == StrOf(0)

\* every dict over a subset of keys, in every insertion order
RECURSIVE Dicts(_)
Dicts(keys) ==
    {<<>>} \cup
    UNION { { <<[k |-> key, v |-> val]>> \o d : d \in Dicts(keys \ {key}) } :
              key \in keys, val \in Values }

\* complete submissions in question order whose values do not decrease:
\* one representative of every multiset of values in 0..MaxVal
RECURSIVE Profiles(_, _, _)
Profiles(t, i, lo) ==
    IF i > Len(t.questions) THEN {<<>>}
    ELSE UNION { { <<[k |-> StrOf(t.questions[i].id), v |-> val]>> \o p :
                     p \in Profiles(t, i + 1, val) } : val \in lo..MaxVal }

DropEntry(d, i) == SubSeq(d, 1, i - 1) \o SubSeq(d, i + 1, Len(d))

\* the constant submissions with one question left out
OneMissing(t) ==
    { DropEntry([i \in 1..Len(t.questions) |->
                    [k |-> StrOf(t.questions[i].id), v |-> val]], j) :
        val \in 0..MaxVal, j \in 1..Len(t.questions) }

AnswersFor(t) ==
    IF Len(t.questions) <= SmallTest
    THEN Dicts(QuestionKeys(t) \cup {ForeignKey})
    ELSE Profiles(t, 1, 0) \cup OneMissing(t)

AnswerKeys(ans) == {ans[i].k : i \in 1..Len(ans)}

AnswerValues(ans) == [i \in 1..Len(ans) |-> ans[i].v]

(***************************************************************************)
(* healmymind/validators.py validate_test_answers(answers, questions).     *)
(* It returns None or raises one ValidationError(code, params); the model  *)
(* records the code and the set of question identifiers the error names    *)
(* (its params).                                                           *)
(***************************************************************************)
NoOutcome == [status |-> "none", code |-> "", named |-> {}]

Valid == [status |-> "ok", code |-> "", named |-> {}]

ValidationError(code, named) == [status |-> "error", code |-> code, named |-> named]

\* next((q for q in questions if str(q['id']) == q_id), None): the index of
\* the first question with that key, 0 for None
FindQuestion(questions, q_id) ==
    LET hits == {j \in 1..Len(questions) : StrOf(questions[j].id) = q_id}
    IN  IF hits = {} THEN 0 ELSE CHOOSE j \in hits : \A h \in hits : j <= h

\* [opt['value'] for opt in question['options']]
ValidValues(question) == {question.options[j].value : j \in 1..Len(question.options)}

\* Faulty variant: the loop runs over the questions, not over the entries of
\* the mapping, so the question named is the first in question order.
RECURSIVE CheckValuesByQuestion(_, _, _)
CheckValuesByQuestion(ans, questions, i) ==
    IF i > Len(questions) THEN Valid
    ELSE LET q_id == StrOf(questions[i].id)
             hits == {e \in 1..Len(ans) : ans[e].k = q_id}
         IN  IF \E e \in hits : ans[e].v \notin ValidValues(questions[i])
             THEN ValidationError("invalid_answer", {q_id})
             ELSE CheckValuesByQuestion(ans, questions, i + 1)

\* Faulty variant: the invalid_answer error is raised without its params, so
\* it names no question.
RECURSIVE CheckValuesUnnamed(_, _, _)
CheckValuesUnnamed(ans, questions, i) ==
    IF i > Len(ans) THEN Valid
    ELSE LET j == FindQuestion(questions, ans[i].k)
         IN  IF j # 0 /\ ans[i].v \notin ValidValues(questions[j])
             THEN ValidationError("invalid_answer", {})
             ELSE CheckValuesUnnamed(ans, questions, i + 1)

\* the loop over answers.items() from entry i on: the first entry whose
\* value is not an option value raises
RECURSIVE CheckValues(_, _, _)
CheckValues(ans, questions, i) ==
    IF i > Len(ans) THEN Valid
    ELSE LET q_id == ans[i].k
             j    == FindQuestion(questions, q_id)
         IN  IF j # 0 /\ ans[i].v \notin ValidValues(questions[j])
             THEN ValidationError("invalid_answer", {q_id})
             ELSE CheckValues(ans, questions, i + 1)

\* Faulty variant: only unanswered questions are looked for, so a mapping
\* with a foreign key passes the first check.
ValidateTestAnswersSubset(ans, questions) ==
    LET question_ids == {StrOf(questions[j].id) : j \in 1..Len(questions)}
        answer_ids   == AnswerKeys(ans)
    IN  IF ~(question_ids \subseteq answer_ids)
        THEN ValidationError("incomplete_answers", {})
        ELSE CheckValues(ans, questions, 1)

\* Variant: the incomplete_answers error carries the identifiers that differ.
ValidateTestAnswersNaming(ans, questions) ==
    LET question_ids == {StrOf(questions[j].id) : j \in 1..Len(questions)}
        answer_ids   == AnswerKeys(ans)
    IN  IF question_ids # answer_ids
        THEN ValidationError("incomplete_answers",
                             (question_ids \ answer_ids) \cup (answer_ids \ question_ids))
        ELSE CheckValues(ans, questions, 1)

ValidateTestAnswers(ans, questions) ==
    LET question_ids == {StrOf(questions[j].id) : j \in 1..Len(questions)}
        answer_ids   == AnswerKeys(ans)
    IN  IF question_ids # answer_ids
        THEN ValidationError("incomplete_answers", {})
        ELSE CheckValues(ans, questions, 1)

(***************************************************************************)
(* tests/serializers.py SubmitTestSerializer.validate_answers(value), with *)
(* the test in the serializer context: it compares the two key sets and    *)
(* returns value.                                                          *)
(***************************************************************************)
ValidateAnswers(value, t) ==
    LET question_ids == {StrOf(t.questions[j].id) : j \in 1..Len(t.questions)}
        answer_ids   == AnswerKeys(value)
    IN  IF question_ids # answer_ids THEN "rejected" ELSE "accepted"

(***************************************************************************)
(* healmymind/utils.py calculate_test_score(answers, test_type).           *)
(***************************************************************************)
\* Faulty variant: the first entry of the mapping counts twice.
TotalScoreFirstTwice(ans) ==
    SumSeq(AnswerValues(ans)) + (IF ans = <<>> THEN 0 ELSE ans[1].v)

\* Faulty variant: each value is scaled by the position of its entry.
TotalScoreWeighted(ans) == SumSeq([i \in 1..Len(ans) |-> i * ans[i].v])

\* sum(answers.values())
TotalScore(ans) == SumSeq(AnswerValues(ans))

\* Faulty variant: the PHQ9 table carries the instrument's fifth band, a
\* label the result type does not have.
BuiltinRangesFiveBands(test_type) ==
    CASE test_type = "PHQ9" ->
            << Range(0, 4, "MINIMAL"), Range(5, 9, "MILD"),
               Range(10, 14, "MODERATE"), Range(15, 19, "MODERATELY_SEVERE"),
               Range(20, 27, "SEVERE") >>
      [] test_type = "GAD7" ->
            << Range(0, 4, "MINIMAL"), Range(5, 9, "MILD"),
               Range(10, 14, "MODERATE"), Range(15, 21, "SEVERE") >>
      [] OTHER -> <<>>

\* Faulty variant: the top PHQ9 range ends one point too high.
BuiltinRangesWide(test_type) ==
    CASE test_type = "PHQ9" ->
            << Range(0, 4, "MINIMAL"), Range(5, 9, "MILD"),
               Range(10, 14, "MODERATE"), Range(15, 28, "SEVERE") >>
      [] test_type = "GAD7" ->
            << Range(0, 4, "MINIMAL"), Range(5, 9, "MILD"),
               Range(10, 14, "MODERATE"), Range(15, 21, "SEVERE") >>
      [] OTHER -> <<>>

\* Faulty variant: the PHQ9 table leaves total 5 without a range.
BuiltinRangesGap(test_type) ==
    CASE test_type = "PHQ9" ->
            << Range(0, 4, "MINIMAL"), Range(6, 9, "MILD"),
               Range(10, 14, "MODERATE"), Range(15, 27, "SEVERE") >>
      [] test_type = "GAD7" ->
            << Range(0, 4, "MINIMAL"), Range(5, 9, "MILD"),
               Range(10, 14, "MODERATE"), Range(15, 21, "SEVERE") >>
      [] OTHER -> <<>>

\* Faulty variant: the GAD7 table carries the labels of its two middle
\* ranges the wrong way round.
BuiltinRangesSwapped(test_type) ==
    CASE test_type = "PHQ9" ->
            << Range(0, 4, "MINIMAL"), Range(5, 9, "MILD"),
               Range(10, 14, "MODERATE"), Range(15, 27, "SEVERE") >>
      [] test_type = "GAD7" ->
            << Range(0, 4, "MINIMAL"), Range(5, 9, "MODERATE"),
               Range(10, 14, "MILD"), Range(15, 21, "SEVERE") >>
      [] OTHER -> <<>>

\* scoring_ranges.get(test_type, []): the table written inside the function
BuiltinRanges(test_type) ==
    CASE test_type = "PHQ9" ->
            << Range(0, 4, "MINIMAL"), Range(5, 9, "MILD"),
               Range(10, 14, "MODERATE"), Range(15, 27, "SEVERE") >>
      [] test_type = "GAD7" ->
            << Range(0, 4, "MINIMAL"), Range(5, 9, "MILD"),
               Range(10, 14, "MODERATE"), Range(15, 21, "SEVERE") >>
      [] OTHER -> <<>>

\* Faulty variant: the upper bound of a range is excluded.
RECURSIVE FindSeverityExclusive(_, _)
FindSeverityExclusive(ranges, total_score) ==
    IF ranges = <<>> THEN "UNKNOWN"
    ELSE IF Head(ranges).min_score <= total_score /\ total_score < Head(ranges).max_score
         THEN Head(ranges).severity
         ELSE FindSeverityExclusive(Tail(ranges), total_score)

\* the for loop with break: the severity of the first range, in list order,
\* that holds the total; 'UNKNOWN' when the loop ends without a match
RECURSIVE FindSeverity(_, _)
FindSeverity(ranges, total_score) ==
    IF ranges = <<>> THEN "UNKNOWN"
    ELSE IF Head(ranges).min_score <= total_score /\ total_score <= Head(ranges).max_score
         THEN Head(ranges).severity
         ELSE FindSeverity(Tail(ranges), total_score)

NoResult == [status |-> "none", score |-> 0, severity |-> ""]

\* Faulty variant: a total no range holds takes the label of the nearest
\* range of the table instead of 'UNKNOWN'.
CalculateTestScoreClamped(ans, test_type) ==
    LET total_score == SumSeq(AnswerValues(ans))
        ranges      == IF test_type = "GAD7"
                       THEN << Range(0, 4, "MINIMAL"), Range(5, 9, "MILD"),
                               Range(10, 14, "MODERATE"), Range(15, 21, "SEVERE") >>
                       ELSE << Range(0, 4, "MINIMAL"), Range(5, 9, "MILD"),
                               Range(10, 14, "MODERATE"), Range(15, 27, "SEVERE") >>
        hits        == {i \in 1..Len(ranges) :
                           ranges[i].min_score <= total_score
                           /\ total_score <= ranges[i].max_score}
    IN  [ status   |-> "returned",
          score    |-> total_score,
          severity |-> IF hits # {} THEN ranges[CHOOSE i \in hits : TRUE].severity
                       ELSE IF total_score < 0 THEN "MINIMAL" ELSE "SEVERE" ]

CalculateTestScore(ans, test_type) ==
    LET total_score == TotalScore(ans)
    IN  [ status   |-> "returned",
          score    |-> total_score,
          severity |-> FindSeverity(BuiltinRanges(test_type), total_score) ]

(***************************************************************************)
(* The state machine: one submission, and the three operations on it.      *)
(***************************************************************************)
\* nothing else runs while a submission is handled: the database holds the
\* test, no other invocation is under way, the rate limiter is idle
Init ==
    /\ test \in TestDefinitions
    /\ answers \in AnswersFor(test)
    /\ outcome = NoOutcome
    /\ accepted = "none"
    /\ result = NoResult
    /\ tests = <<test>>
    /\ calls = <<>>
    /\ debug = FALSE
    /\ now = 0
    /\ cache = <<>>
    /\ workers = <<>>
    /\ log = <<>>
    /\ SideIdle

\* Faulty variant: the validator takes the entries out of the caller's
\* mapping as it checks them.
ValidateConsuming ==
    /\ outcome.status = "none"
    /\ outcome' = ValidateTestAnswers(answers, test.questions)
    /\ answers' = <<>>
    /\ UNCHANGED <<test, accepted, result>>
    /\ UNCHANGED <<tests, calls, rateVars, sideVars>>

\* validate_test_answers on the submission and the test's questions
Validate ==
    /\ outcome.status = "none"
    /\ outcome' = ValidateTestAnswers(answers, test.questions)
    /\ UNCHANGED <<test, answers, accepted, result>>
    /\ UNCHANGED <<tests, calls, rateVars, sideVars>>

\* the submission endpoint's serializer validates the answers field
SubmitValidate ==
    /\ accepted = "none"
    /\ accepted' = ValidateAnswers(answers, test)
    /\ UNCHANGED <<test, answers, outcome, result>>
    /\ UNCHANGED <<tests, calls, rateVars, sideVars>>

\* calculate_test_score on the submission and the test's type tag
Score ==
    /\ result.status = "none"
    /\ result' = CalculateTestScore(answers, test.test_type)
    /\ UNCHANGED <<test, answers, outcome, accepted>>
    /\ UNCHANGED <<tests, calls, rateVars, sideVars>>

Next == Validate \/ SubmitValidate \/ Score

Spec == Init /\ [][Next]_vars

(***************************************************************************)
(* Vocabulary of the properties, stated over the data and not through the  *)
(* operators above.                                                        *)
(***************************************************************************)
\* the sum of the values of the first n entries
RECURSIVE SumUpTo(_, _)
SumUpTo(ans, n) == IF n = 0 THEN 0 ELSE SumUpTo(ans, n - 1) + ans[n].v

PlainSum(ans) == SumUpTo(ans, Len(ans))

\* the option values of the question(s) of t answering to key
PermittedValues(t, key) ==
    UNION { {t.questions[j].options[o].value : o \in 1..Len(t.questions[j].options)} :
              j \in {h \in 1..Len(t.questions) : StrOf(t.questions[h].id) = key} }

\* the entries whose key is a question of t and whose value is no option of it
InvalidEntries(t, ans) ==
    {i \in 1..Len(ans) : ans[i].k \in QuestionKeys(t)
                         /\ ans[i].v \notin PermittedValues(t, ans[i].k)}

MissingKeys(t, ans) == QuestionKeys(t) \ AnswerKeys(ans)

ExtraKeys(t, ans) == AnswerKeys(ans) \ QuestionKeys(t)

\* every question that violates a constraint: missing, extra or invalid value
ViolatedQuestions(t, ans) ==
    MissingKeys(t, ans) \cup ExtraKeys(t, ans)
        \cup {ans[i].k : i \in InvalidEntries(t, ans)}

WellFormed(t, ans) ==
    /\ AnswerKeys(ans) = QuestionKeys(t)
    /\ \A i \in 1..Len(ans) : ans[i].v \in PermittedValues(t, ans[i].k)

InRange(r, total) == r.min_score <= total /\ total <= r.max_score

\* the severity authored for a total: of the ScoringRange rows of the test
\* that hold the total, the one with the least min; UNKNOWN when none does
AuthoredSeverity(t, total) ==
    LET rows == {i \in 1..Len(t.scoring_ranges) : InRange(t.scoring_ranges[i], total)}
    IN  IF rows = {} THEN "UNKNOWN"
        ELSE LET first == CHOOSE i \in rows : \A h \in rows :
                              \/ t.scoring_ranges[i].min_score < t.scoring_ranges[h].min_score
                              \/ /\ t.scoring_ranges[i].min_score = t.scoring_ranges[h].min_score
                                 /\ i <= h
             IN  t.scoring_ranges[first].severity

MinOf(S) == CHOOSE x \in S : \A y \in S : x <= y

MaxOf(S) == CHOOSE x \in S : \A y \in S : x >= y

MinPossible(t) ==
    SumSeq([j \in 1..Len(t.questions) |-> MinOf(ValidValues(t.questions[j]))])

MaxPossible(t) ==
    SumSeq([j \in 1..Len(t.questions) |-> MaxOf(ValidValues(t.questions[j]))])

\* the ScoringRange rows of t are contiguous and cover its score domain:
\* every possible total lies in exactly one row, and no row leaves the domain
RangesCoverDomain(t) ==
    /\ \A j \in 1..Len(t.questions) : t.questions[j].options # <<>>
    /\ \A total \in MinPossible(t)..MaxPossible(t) :
          Cardinality({i \in 1..Len(t.scoring_ranges) :
                          InRange(t.scoring_ranges[i], total)}) = 1
    /\ \A i \in 1..Len(t.scoring_ranges) :
          /\ MinPossible(t) <= t.scoring_ranges[i].min_score
          /\ t.scoring_ranges[i].min_score <= t.scoring_ranges[i].max_score
          /\ t.scoring_ranges[i].max_score <= MaxPossible(t)

Scored == result.status = "returned"

Validated == outcome.status # "none"

(***************************************************************************)
(* C1.  For every answers mapping and every test, calculate_test_score     *)
(* returns a total equal to the plain sum of the answer values: no         *)
(* weighting, normalisation or per-question scaling.                       *)
(***************************************************************************)
C1_TotalIsPlainSum == Scored => result.score = PlainSum(answers)

\* a scored submission of three different values
C1_Witness ==
    /\ Scored
    /\ Len(answers) = 3
    /\ Cardinality(SeqToSet(AnswerValues(answers))) = 3
    /\ result.score = PlainSum(answers)
    /\ result.score = 6

(***************************************************************************)
(* C2.  The score operation resolves severity from the given test's own    *)
(* ScoringRange rows: the returned label is the one authored for that      *)
(* test for the total (first matching row in ascending min), whatever the  *)
(* test's type tag.                                                        *)
(***************************************************************************)
C2_SeverityFromOwnRanges ==
    (Scored /\ WellFormed(test, answers))
        => result.severity = AuthoredSeverity(test, result.score)

(***************************************************************************)
(* C3.  For every test whose ScoringRange rows are contiguous and cover    *)
(* its whole score domain, the score operation never returns UNKNOWN for   *)
(* an answers mapping that passed validate.                                *)
(***************************************************************************)
C3_NoUnknownWhenCovered ==
    (Scored /\ outcome.status = "ok" /\ RangesCoverDomain(test))
        => result.severity # "UNKNOWN"

(***************************************************************************)
(* C4.  validate_test_answers succeeds if and only if the answered keys    *)
(* are exactly the test's question identifiers and every value is the      *)
(* value of one of that question's options; otherwise it fails.            *)
(***************************************************************************)
C4_ValidateIff ==
    Validated =>
        /\ outcome.status \in {"ok", "error"}
        /\ (outcome.status = "ok") <=> WellFormed(test, answers)

\* a complete, valid submission of the nine-question test passes
C4_Witness ==
    /\ outcome.status = "ok"
    /\ Len(answers) = NumSeedQuestions
    /\ WellFormed(test, answers)

(***************************************************************************)
(* C5.  On the submission path (SubmitTestSerializer.validate_answers) a   *)
(* submission is rejected whenever an answered question carries a value    *)
(* that is no option of that question, even when the answered keys are     *)
(* exactly the test's questions.                                           *)
(***************************************************************************)
C5_SubmitRejectsInvalidValue ==
    (accepted # "none" /\ InvalidEntries(test, answers) # {})
        => accepted = "rejected"

(***************************************************************************)
(* C6.  A total equal to a range's min or max is classified into that      *)
(* range: for PHQ9 and GAD7, totals 4, 5, 9, 10, 14, 15 map to MINIMAL,    *)
(* MILD, MILD, MODERATE, MODERATE, SEVERE, and the top bound (27 for PHQ9, *)
(* 21 for GAD7) maps to SEVERE.                                            *)
(***************************************************************************)
C6_InclusiveBoundaries ==
    (Scored /\ test.test_type \in {"PHQ9", "GAD7"}) =>
        /\ PlainSum(answers) = 4 => result.severity = "MINIMAL"
        /\ PlainSum(answers) = 5 => result.severity = "MILD"
        /\ PlainSum(answers) = 9 => result.severity = "MILD"
        /\ PlainSum(answers) = 10 => result.severity = "MODERATE"
        /\ PlainSum(answers) = 14 => result.severity = "MODERATE"
        /\ PlainSum(answers) = 15 => result.severity = "SEVERE"
        /\ (test.test_type = "PHQ9" /\ PlainSum(answers) = 27)
              => result.severity = "SEVERE"
        /\ (test.test_type = "GAD7" /\ PlainSum(answers) = 21)
              => result.severity = "SEVERE"

\* a GAD7-typed test scored at the top bound
C6_Witness ==
    /\ Scored
    /\ test.test_type = "GAD7"
    /\ PlainSum(answers) = 21
    /\ result.severity = "SEVERE"

(***************************************************************************)
(* C7.  For the nine-question instrument with options 0..3, answers        *)
(* summing to 4 score (4, MINIMAL), to 5 (5, MILD), to 27 (27, SEVERE)     *)
(* and to 28 (28, UNKNOWN).                                                *)
(***************************************************************************)
C7_NineQuestionScenario ==
    (Scored /\ test = SeededPHQ9 /\ AnswerKeys(answers) = QuestionKeys(test)) =>
        /\ PlainSum(answers) = 4
              => (result.score = 4 /\ result.severity = "MINIMAL")
        /\ PlainSum(answers) = 5
              => (result.score = 5 /\ result.severity = "MILD")
        /\ PlainSum(answers) = 27
              => (result.score = 27 /\ result.severity = "SEVERE")
        /\ PlainSum(answers) = 28
              => (result.score = 28 /\ result.severity = "UNKNOWN")

\* the nine questions answered to a total of 28
C7_Witness ==
    /\ Scored
    /\ test = SeededPHQ9
    /\ AnswerKeys(answers) = QuestionKeys(test)
    /\ PlainSum(answers) = 28
    /\ result.severity = "UNKNOWN"

OneQuestionOmitted ==
    /\ AnswerKeys(answers) \subseteq QuestionKeys(test)
    /\ Cardinality(MissingKeys(test, answers)) = 1
    /\ InvalidEntries(test, answers) = {}

InvalidKeys(t, ans) == {ans[i].k : i \in InvalidEntries(t, ans)}

C11_InvalidValueNamesQuestion ==
    (Validated /\ AnswerKeys(answers) = QuestionKeys(test)
     /\ InvalidEntries(test, answers) # {})
        => /\ outcome.status = "error"
           /\ outcome.code = "invalid_answer"
           /\ outcome.named # {}
           /\ outcome.named \subseteq InvalidKeys(test, answers)
           /\ Cardinality(InvalidKeys(test, answers)) = 1
                 => outcome.named = InvalidKeys(test, answers)

\* the nine questions answered, one of them with a value above its options
C11_Witness ==
    /\ outcome.status = "error"
    /\ test = SeededPHQ9
    /\ AnswerKeys(answers) = QuestionKeys(test)
    /\ Cardinality(InvalidEntries(test, answers)) = 1
    /\ outcome.named = InvalidKeys(test, answers)

(***************************************************************************)
(* C12.  Permuting the order of the entries of the answers mapping changes *)
(* neither the total nor the severity the score operation returns.         *)
(***************************************************************************)
\* the mapping with the entries at positions i and j exchanged
SwapEntries(ans, i, j) ==
    [n \in 1..Len(ans) |-> IF n = i THEN ans[j] ELSE IF n = j THEN ans[i] ELSE ans[n]]

\* the mapping read from its last entry to its first
ReverseEntries(ans) == [n \in 1..Len(ans) |-> ans[Len(ans) + 1 - n]]

\* reorderings of a mapping: every exchange of two entries, and the reversal
\* (the exchanges generate every permutation)
Reorderings(ans) ==
    {SwapEntries(ans, i, j) : i \in 1..Len(ans), j \in 1..Len(ans)}
        \cup {ReverseEntries(ans)}

C12_OrderIndependent ==
    Scored =>
        \A other \in Reorderings(answers) :
            LET again == CalculateTestScore(other, test.test_type)
            IN  /\ again.score = result.score
                /\ again.severity = result.severity

\* a scored mapping of three entries with three different values, so that
\* its reorderings are different mappings
C12_Witness ==
    /\ Scored
    /\ Len(answers) = 3
    /\ Cardinality(SeqToSet(AnswerValues(answers))) = 3
    /\ Cardinality(Reorderings(answers)) > 3
    /\ result.severity = "MILD"

(***************************************************************************)
(* C15.  Every result of the score operation has an integer total and a    *)
(* severity that is one of MINIMAL, MILD, MODERATE, SEVERE or UNKNOWN.     *)
(***************************************************************************)
C15_ResultShape ==
    Scored =>
        /\ result.score \in Int
        /\ result.severity \in SEVERITY_LEVELS \cup {"UNKNOWN"}

\* a result in the band between 15 and 19
C15_Witness ==
    /\ Scored
    /\ test.test_type = "PHQ9"
    /\ result.score = 17
    /\ result.severity = "SEVERE"

(***************************************************************************)
(* C16.  Neither validate nor score has a side effect: a step in which     *)
(* either returns or fails leaves the answers mapping, the questions,      *)
(* options and ranges passed in, the database and the cache unchanged.     *)
(***************************************************************************)
C16_NoSideEffect ==
    [][ (outcome' # outcome \/ result' # result)
            => /\ answers' = answers
               /\ test' = test
               /\ tests' = tests
               /\ cache' = cache ]_vars

\* validate has failed and score has returned on a non-empty mapping
C16_Witness ==
    /\ outcome.status = "error"
    /\ Scored
    /\ answers # <<>>
    /\ tests = <<test>>

(***************************************************************************)
(* The authoring paths: the database of tests, filled by the seed script   *)
(* and by CreateTestSerializer.create.                                     *)
(***************************************************************************)
\* the database holds at most MaxTests tests
MaxTests == 3

\* no submission is being handled
ScoreIdle ==
    /\ test = SeededPHQ9
    /\ answers = <<>>
    /\ outcome = NoOutcome
    /\ accepted = "none"
    /\ result = NoResult

\* the rate limiter is idle
RateIdle ==
    /\ debug = FALSE
    /\ now = 0
    /\ cache = <<>>
    /\ workers = <<>>
    /\ log = <<>>

\* the primary key the database gives the next Question row
NextQuestionId(db) ==
    SumSeq([i \in 1..Len(db) |-> Len(db[i].questions)]) + 1

InitAuthoring ==
    /\ tests = <<>>
    /\ calls = <<>>
    /\ ScoreIdle
    /\ RateIdle
    /\ SideIdle

\* scripts/seed.py create_test_data on the fresh database it is written for
SeedTestData ==
    /\ tests = <<>>
    /\ tests' = <<SeededPHQ9>>
    /\ UNCHANGED <<scoreVars, calls, rateVars, sideVars>>

\* the administrative endpoint saves a CreateTestSerializer
CreateTestView ==
    /\ Len(tests) < MaxTests
    /\ \E validated_data \in CreateInputs :
          tests' = Append(tests, CreateTest(validated_data, NextQuestionId(tests)))
    /\ UNCHANGED <<scoreVars, calls, rateVars, sideVars>>

NextAuthoring == SeedTestData \/ CreateTestView

SpecAuthoring == InitAuthoring /\ [][NextAuthoring]_vars

(***************************************************************************)
(* C14.  Every test that exists in the system, seeded or created through   *)
(* CreateTestSerializer.create with any accepted input, has ScoringRange   *)
(* rows that partition its possible score domain: no gap, no overlap.      *)
(***************************************************************************)
C14_RangesPartitionDomain ==
    \A i \in 1..Len(tests) : RangesCoverDomain(tests[i])

(***************************************************************************)
(* Invocations side by side.  Two threads each run validate_test_answers   *)
(* or calculate_test_score on a submission of their own; a step is one     *)
(* pass of a loop of the function, and the steps of the two interleave.    *)
(* Every variable of the functions is a local of the invocation.           *)
(***************************************************************************)
CallIds == {1, 2}

\* every dict over a subset of keys with values in vals, in every order
RECURSIVE DictsOver(_, _)
DictsOver(keys, vals) ==
    {<<>>} \cup
    UNION { { <<[k |-> key, v |-> val]>> \o d : d \in DictsOver(keys \ {key}, vals) } :
              key \in keys, val \in vals }

\* the tests the side-by-side invocations address: the two-question test
\* under a type tag with a table and under one without
CallTests ==
    { CreateTest([test_type |-> t, questions |-> ShortQuestions,
                  scoring_ranges |-> ShortRangesWhole], NumSeedQuestions + 1) :
        t \in {"PHQ9", "PCL5"} }

\* an invocation before its first step
NewCall(op, t, ans) ==
    [ op          |-> op,
      t           |-> t,
      ans         |-> ans,
      pc          |-> IF op = "score" THEN "sum" ELSE "keys",
      i           |-> 1,
      total_score |-> 0,
      ret         |-> IF op = "score" THEN NoResult ELSE NoOutcome ]

CallAnswers(t) == DictsOver(QuestionKeys(t), {1, MaxVal})

CallInputs ==
    UNION { { NewCall("score", t, ans) : ans \in CallAnswers(t) } : t \in CallTests }
    \cup
    UNION { { NewCall("validate", t, ans) : ans \in CallAnswers(t) } :
              t \in {c \in CallTests : c.test_type = "PHQ9"} }

\* Faulty variant: the running total is a module-level variable, one cell
\* for every invocation.
AccumulatorShared(p) == 1

\* the cell that holds the running total of invocation p: total_score is a
\* local variable of the call
Accumulator(p) == p

InitCalls ==
    /\ calls \in [CallIds -> CallInputs]
    /\ tests = <<>>
    /\ ScoreIdle
    /\ RateIdle
    /\ SideIdle

\* sum(answers.values()): one entry is added to the running total
ScoreAdd(p) ==
    /\ calls[p].op = "score" /\ calls[p].pc = "sum"
    /\ calls[p].i <= Len(calls[p].ans)
    /\ LET added == [calls EXCEPT ![Accumulator(p)].total_score =
                                      @ + calls[p].ans[calls[p].i].v]
       IN  calls' = [added EXCEPT ![p].i = @ + 1]
    /\ UNCHANGED <<scoreVars, tests, rateVars, sideVars>>

\* the range scan on the finished total, and the return
ScoreReturn(p) ==
    /\ calls[p].op = "score" /\ calls[p].pc = "sum"
    /\ calls[p].i > Len(calls[p].ans)
    /\ LET total_score == calls[Accumulator(p)].total_score
       IN  calls' = [calls EXCEPT
                       ![p].pc = "done",
                       ![p].ret = [ status   |-> "returned",
                                    score    |-> total_score,
                                    severity |-> FindSeverity(
                                        BuiltinRanges(calls[p].t.test_type),
                                        total_score) ]]
    /\ UNCHANGED <<scoreVars, tests, rateVars, sideVars>>

\* question_ids != answer_ids
ValidateKeys(p) ==
    /\ calls[p].op = "validate" /\ calls[p].pc = "keys"
    /\ IF QuestionKeys(calls[p].t) # AnswerKeys(calls[p].ans)
       THEN calls' = [calls EXCEPT
                        ![p].pc = "done",
                        ![p].ret = ValidationError("incomplete_answers", {})]
       ELSE calls' = [calls EXCEPT ![p].pc = "values"]
    /\ UNCHANGED <<scoreVars, tests, rateVars, sideVars>>

\* one pass of the loop over answers.items()
ValidateValue(p) ==
    /\ calls[p].op = "validate" /\ calls[p].pc = "values"
    /\ calls[p].i <= Len(calls[p].ans)
    /\ LET entry == calls[p].ans[calls[p].i]
           j     == FindQuestion(calls[p].t.questions, entry.k)
       IN  IF j # 0 /\ entry.v \notin ValidValues(calls[p].t.questions[j])
           THEN calls' = [calls EXCEPT
                            ![p].pc = "done",
                            ![p].ret = ValidationError("invalid_answer", {entry.k})]
           ELSE calls' = [calls EXCEPT ![p].i = @ + 1]
    /\ UNCHANGED <<scoreVars, tests, rateVars, sideVars>>

\* the loop ends without a raise: the function returns None
ValidateReturn(p) ==
    /\ calls[p].op = "validate" /\ calls[p].pc = "values"
    /\ calls[p].i > Len(calls[p].ans)
    /\ calls' = [calls EXCEPT ![p].pc = "done", ![p].ret = Valid]
    /\ UNCHANGED <<scoreVars, tests, rateVars, sideVars>>

NextCalls ==
    \E p \in CallIds :
        \/ ScoreAdd(p)
        \/ ScoreReturn(p)
        \/ ValidateKeys(p)
        \/ ValidateValue(p)
        \/ ValidateReturn(p)

SpecCalls == InitCalls /\ [][NextCalls]_vars

(***************************************************************************)
(* C17.  When score and validate are invoked concurrently for different    *)
(* submissions, under every interleaving each invocation returns exactly   *)
(* the result it returns when run alone, and no step of one invocation     *)
(* touches the state of another or the shared database and cache.          *)
(***************************************************************************)
\* what the invocation returns when nothing else runs
AloneResult(c) ==
    IF c.op = "score" THEN CalculateTestScore(c.ans, c.t.test_type)
    ELSE ValidateTestAnswers(c.ans, c.t.questions)

C17_ResultAsAlone ==
    \A p \in CallIds : calls[p].pc = "done" => calls[p].ret = AloneResult(calls[p])

C17_NoSharedState ==
    [][ /\ \E p \in CallIds : \A q \in CallIds \ {p} : calls'[q] = calls[q]
        /\ tests' = tests
        /\ cache' = cache ]_vars

C17_ConcurrentAsAlone == []C17_ResultAsAlone /\ C17_NoSharedState

\* two score invocations on different submissions, both finished
C17_Witness ==
    /\ calls[1].op = "score" /\ calls[2].op = "score"
    /\ calls[1].pc = "done" /\ calls[2].pc = "done"
    /\ calls[1].ans # calls[2].ans
    /\ calls[1].ret.score = 2 * MaxVal /\ calls[2].ret.score = 2

(***************************************************************************)
(* Rate limiting.  The rate_limit decorator and RateLimitMiddleware keep   *)
(* one counter per bucket in the Django cache: cache.get reads it (0 when  *)
(* the entry is missing or has expired), the request is turned away when   *)
(* the count has reached the limit, and otherwise cache.set stores         *)
(* count + 1 with a fresh timeout and the view runs.  The read and the     *)
(* write are two separate cache operations.  Time is counted in whole      *)
(* seconds; the limits of the source (100 and 1000 per 3600 s) are scaled  *)
(* down to the bounds below.                                               *)
(***************************************************************************)
Rate == 2
Period == 2
MaxRequestsPerWindow == 1
Window == 3
MaxTime == 4
MaxRequests == 4

WorkerIds == {1, 2}

\* cache_key = f'rate_limit:{key}:{user_id}'
DecoratorKey(key, user_id) == "rate_limit:" \o key \o ":" \o user_id

\* key = f'rate_limit:{ip}'
MiddlewareKey(ip) == "rate_limit:" \o ip

ViewBucket == DecoratorKey("tests", StrOf(1))
IpBucket == MiddlewareKey("10.0.0.1")
Buckets == {ViewBucket, IpBucket}

\* the limit and the timeout a bucket is checked against
LimitOf(b) == IF b = IpBucket THEN MaxRequestsPerWindow ELSE Rate
TimeoutOf(b) == IF b = IpBucket THEN Window ELSE Period

Missing == [present |-> FALSE, value |-> 0, expires |-> 0]

\* cache.get(key, 0): the default when the entry is missing or has expired
CacheGet(c, key, t) ==
    IF c[key].present /\ c[key].expires > t THEN c[key].value ELSE 0

\* cache.set(key, value, timeout)
CacheSet(c, key, value, timeout, t) ==
    [c EXCEPT ![key] = [present |-> TRUE, value |-> value, expires |-> t + timeout]]

\* Faulty variant: only a count above the limit turns the request away.
OverLimitStrict(count, rate) == count > rate

\* if count >= rate
OverLimit(count, rate) == count >= rate

\* Faulty variant: turning a request away restarts the bucket's timeout.
OnRejectRefresh(c, key, t) ==
    IF c[key].present THEN [c EXCEPT ![key].expires = t + TimeoutOf(key)] ELSE c

\* raise RateLimitExceeded() / return True: no cache operation
OnReject(c, key, t) == c

IdleWorker == [pc |-> "idle", bucket |-> "", count |-> 0, read |-> 0]

InFlight == {w \in WorkerIds : workers[w].pc # "idle"}

Handled(b, read, seen, verdict) ==
    [bucket |-> b, read |-> read, at |-> now, seen |-> seen, verdict |-> verdict]

InitRate ==
    /\ debug \in BOOLEAN
    /\ now = 0
    /\ cache = [b \in Buckets |-> Missing]
    /\ workers = [w \in WorkerIds |-> IdleWorker]
    /\ log = <<>>
    /\ tests = <<>>
    /\ calls = <<>>
    /\ ScoreIdle
    /\ SideIdle

\* if settings.DEBUG: the view runs, the cache is not consulted
Bypass(w, b) ==
    /\ debug
    /\ workers[w].pc = "idle"
    /\ Len(log) < MaxRequests
    /\ log' = Append(log, Handled(b, now, 0, "admitted"))
    /\ UNCHANGED <<debug, now, cache, workers, scoreVars, tests, calls, sideVars>>

\* count = cache.get(cache_key, 0)
Get(w, b) ==
    /\ ~debug
    /\ workers[w].pc = "idle"
    /\ Len(log) + Cardinality(InFlight) < MaxRequests
    /\ workers' = [workers EXCEPT ![w] =
                     [pc |-> "decide", bucket |-> b,
                      count |-> CacheGet(cache, b, now), read |-> now]]
    /\ UNCHANGED <<debug, now, cache, log, scoreVars, tests, calls, sideVars>>

\* the count has reached the limit: RateLimitExceeded / status 429, the
\* view is not run
Reject(w) ==
    /\ workers[w].pc = "decide"
    /\ OverLimit(workers[w].count, LimitOf(workers[w].bucket))
    /\ cache' = OnReject(cache, workers[w].bucket, now)
    /\ log' = Append(log, Handled(workers[w].bucket, workers[w].read,
                                  workers[w].count, "rejected"))
    /\ workers' = [workers EXCEPT ![w] = IdleWorker]
    /\ UNCHANGED <<debug, now, scoreVars, tests, calls, sideVars>>

\* cache.set(cache_key, count + 1, period), then the view runs
Admit(w) ==
    /\ workers[w].pc = "decide"
    /\ ~OverLimit(workers[w].count, LimitOf(workers[w].bucket))
    /\ cache' = CacheSet(cache, workers[w].bucket, workers[w].count + 1,
                         TimeoutOf(workers[w].bucket), now)
    /\ log' = Append(log, Handled(workers[w].bucket, workers[w].read,
                                  workers[w].count, "admitted"))
    /\ workers' = [workers EXCEPT ![w] = IdleWorker]
    /\ UNCHANGED <<debug, now, scoreVars, tests, calls, sideVars>>

\* a second passes
Tick ==
    /\ now < MaxTime
    /\ now' = now + 1
    /\ UNCHANGED <<debug, cache, workers, log, scoreVars, tests, calls, sideVars>>

\* requests handled one after another: a request starts only when no other
\* is being handled
BypassInTurn(w, b) == InFlight = {} /\ Bypass(w, b)

GetInTurn(w, b) == InFlight = {} /\ Get(w, b)

NextRateSeq ==
    \/ \E w \in WorkerIds, b \in Buckets : BypassInTurn(w, b)
    \/ \E w \in WorkerIds, b \in Buckets : GetInTurn(w, b)
    \/ \E w \in WorkerIds : Reject(w)
    \/ \E w \in WorkerIds : Admit(w)
    \/ Tick

SpecRateSeq == InitRate /\ [][NextRateSeq]_vars

\* requests handled by several threads or processes at once
NextRateConc ==
    \/ \E w \in WorkerIds, b \in Buckets : Bypass(w, b)
    \/ \E w \in WorkerIds, b \in Buckets : Get(w, b)
    \/ \E w \in WorkerIds : Reject(w)
    \/ \E w \in WorkerIds : Admit(w)
    \/ Tick

SpecRateConc == InitRate /\ [][NextRateConc]_vars

\* the requests of bucket b whose view ran at a time in [from, to)
AdmittedIn(b, from, to) ==
    { i \in 1..Len(log) : /\ log[i].bucket = b
                          /\ log[i].verdict = "admitted"
                          /\ from <= log[i].at
                          /\ log[i].at < to }

\* the requests of bucket b handled before request i whose view ran
AdmittedBefore(b, i) ==
    { j \in 1..(i - 1) : log[j].bucket = b /\ log[j].verdict = "admitted" }

(***************************************************************************)
(* C18.  With DEBUG off and the requests to a bucket handled one after     *)
(* another, at most the bucket's limit of requests are admitted in any     *)
(* window of its period, and a request that finds the counter at the       *)
(* limit is rejected, its view not run.                                    *)
(***************************************************************************)
C18_AtMostRatePerWindow ==
    ~debug =>
        \A b \in Buckets :
            /\ \A t \in 0..now :
                   Cardinality(AdmittedIn(b, t, t + TimeoutOf(b))) <= LimitOf(b)
            /\ \A i \in 1..Len(log) :
                   (log[i].bucket = b /\ log[i].seen = LimitOf(b))
                       => log[i].verdict = "rejected"

\* the view bucket was filled to its limit and the next request, inside
\* the period, was turned away
C18_Witness ==
    /\ ~debug
    /\ \E i \in 1..Len(log) :
           /\ log[i].bucket = ViewBucket
           /\ log[i].verdict = "rejected"
           /\ Cardinality(AdmittedBefore(ViewBucket, i)) = Rate
    /\ InFlight = {}

(***************************************************************************)
(* C19.  When requests to one bucket are handled concurrently, their cache *)
(* reads and writes interleaving, the requests admitted before the         *)
(* bucket's counter expires still never exceed the limit: every admitted   *)
(* request has fewer than the limit admitted in the period before it.      *)
(***************************************************************************)
C19_ConcurrentAtMostRate ==
    ~debug =>
        \A i \in 1..Len(log) :
            log[i].verdict = "admitted" =>
                Cardinality({ j \in AdmittedBefore(log[i].bucket, i) :
                                log[j].at > log[i].at - TimeoutOf(log[i].bucket) })
                    < LimitOf(log[i].bucket)

(***************************************************************************)
(* C20.  A rejected request leaves the bucket's counter and expiry as they *)
(* were, so with requests handled in turn a request that arrives a full    *)
(* period or more after the bucket's last admitted request is admitted,    *)
(* however many requests were rejected in between.                         *)
(***************************************************************************)
C20_RejectionKeepsCache ==
    [][ (Len(log') > Len(log) /\ log'[Len(log')].verdict = "rejected")
            => cache' = cache ]_vars

C20_AdmittedAfterPeriod ==
    ~debug =>
        \A i \in 1..Len(log) :
            (\A j \in AdmittedBefore(log[i].bucket, i) :
                 log[i].read >= log[j].at + TimeoutOf(log[i].bucket))
                => log[i].verdict = "admitted"

C20_RejectedDoesNotExtend == []C20_AdmittedAfterPeriod /\ C20_RejectionKeepsCache

\* a bucket filled to its limit, requests turned away, and a request a
\* period after the last admitted one let through again
C20_Witness ==
    /\ ~debug
    /\ \E j \in 1..Len(log) : \E i \in (j + 1)..Len(log) :
           /\ log[j].verdict = "rejected"
           /\ log[i].bucket = log[j].bucket
           /\ log[i].verdict = "admitted"
           /\ \E k \in AdmittedBefore(log[j].bucket, j) :
                  log[j].read > log[k].at

(***************************************************************************)
(* The range tables.  The PHQ9 ranges are written three times in the       *)
(* source (inside calculate_test_score, in constants.PHQ9_RANGES and in    *)
(* the seed script), the GAD7 ranges twice.  A behaviour classifies one    *)
(* total for one test type: calculate_test_score is called on a mapping    *)
(* with a single entry whose value is the total.                           *)
(***************************************************************************)
\* Totals are drawn from -1..MaxTotal.
MaxTotal == 28

\* Faulty variant: constants.PHQ9_RANGES ends MILD one point higher.
PHQ9_RANGES_Shifted ==
    << Range(0, 4, "MINIMAL"), Range(5, 10, "MILD"),
       Range(11, 14, "MODERATE"), Range(15, 27, "SEVERE") >>

\* constants.PHQ9_RANGES ('min', 'max', 'severity'; the description is not
\* used in classification)
PHQ9_RANGES ==
    << Range(0, 4, "MINIMAL"), Range(5, 9, "MILD"),
       Range(10, 14, "MODERATE"), Range(15, 27, "SEVERE") >>

\* constants.GAD7_RANGES
GAD7_RANGES ==
    << Range(0, 4, "MINIMAL"), Range(5, 9, "MILD"),
       Range(10, 14, "MODERATE"), Range(15, 21, "SEVERE") >>

CoreIdle ==
    /\ tests = <<>>
    /\ calls = <<>>
    /\ ScoreIdle
    /\ RateIdle

InitGrading ==
    /\ grading \in { [ test_type |-> t,
                       answers   |-> <<[k |-> StrOf(1), v |-> n]>>,
                       result    |-> NoResult ] :
                       t \in TEST_TYPES, n \in (-1)..MaxTotal }
    /\ pager = <<>>
    /\ feed = <<>>
    /\ responses = <<>>
    /\ tokens = <<>>
    /\ history = <<>>
    /\ CoreIdle

\* calculate_test_score(answers, test_type)
Classify ==
    /\ grading.result = NoResult
    /\ grading' = [grading EXCEPT
                     !.result = CalculateTestScore(grading.answers, grading.test_type)]
    /\ UNCHANGED <<scoreVars, tests, calls, rateVars,
                   pager, feed, responses, tokens, history>>

NextGrading == Classify

SpecGrading == InitGrading /\ [][NextGrading]_vars

Classified == grading.result.status = "returned"

\* the highest total of the instrument: nine (PHQ-9) or seven (GAD-7)
\* questions answered 0..3
ScoreDomainTop(test_type) ==
    IF test_type = "PHQ9" THEN MaxPossible(SeededPHQ9) ELSE 21

TABLED_TYPES == {"PHQ9", "GAD7"}

ConstantsRanges(test_type) ==
    IF test_type = "PHQ9" THEN PHQ9_RANGES ELSE GAD7_RANGES

\* ascending, starting at 0, each range starting one above the end of the
\* one before, ending at top
Contiguous(ranges, top) ==
    /\ ranges # <<>>
    /\ ranges[1].min_score = 0
    /\ ranges[Len(ranges)].max_score = top
    /\ \A i \in 1..Len(ranges) : ranges[i].min_score <= ranges[i].max_score
    /\ \A i \in 2..Len(ranges) : ranges[i].min_score = ranges[i - 1].max_score + 1

Holding(ranges, total) == {i \in 1..Len(ranges) : InRange(ranges[i], total)}

(***************************************************************************)
(* C21.  The PHQ9 and GAD7 tables, in calculate_test_score and in          *)
(* constants, each partition the score domain (0..27, 0..21): ascending    *)
(* from 0, each min one above the previous max, so that every total of     *)
(* the domain is held by exactly one range, whose severity the engine      *)
(* returns.                                                                *)
(***************************************************************************)
C21_BuiltinTablesPartition ==
    /\ \A t \in TABLED_TYPES :
          /\ Contiguous(BuiltinRanges(t), ScoreDomainTop(t))
          /\ Contiguous(ConstantsRanges(t), ScoreDomainTop(t))
    /\ ( /\ Classified
         /\ grading.test_type \in TABLED_TYPES
         /\ grading.result.score \in 0..ScoreDomainTop(grading.test_type) )
       => LET ranges == BuiltinRanges(grading.test_type)
              held   == Holding(ranges, grading.result.score)
          IN  /\ Cardinality(held) = 1
              /\ \A i \in held : grading.result.severity = ranges[i].severity
              /\ Cardinality(Holding(ConstantsRanges(grading.test_type),
                                     grading.result.score)) = 1

\* the total at the seam between MINIMAL and MILD has been classified
C21_Witness ==
    /\ Classified
    /\ grading.test_type = "PHQ9"
    /\ grading.result.score = 5
    /\ grading.result.severity = "MILD"

\* the position of a severity in MINIMAL < MILD < MODERATE < SEVERE
SeverityRank(severity) ==
    CASE severity = "MINIMAL"  -> 1
      [] severity = "MILD"     -> 2
      [] severity = "MODERATE" -> 3
      [] severity = "SEVERE"   -> 4

Higher(s1, s2) ==
    /\ s1 \in SEVERITY_LEVELS
    /\ s2 \in SEVERITY_LEVELS
    /\ SeverityRank(s1) > SeverityRank(s2)

\* the totals an instrument of the type can produce; the type without a
\* table is followed over all the totals of the model
ScoreDomain(test_type) ==
    IF test_type \in TABLED_TYPES THEN 0..ScoreDomainTop(test_type) ELSE 0..MaxTotal

\* what the engine returns for a total
SeverityOfTotal(test_type, total) ==
    CalculateTestScore(<<[k |-> StrOf(1), v |-> total]>>, test_type).severity

(***************************************************************************)
(* C22.  For a fixed test type severity is monotone in the total: for      *)
(* totals a <= b of the score domain, the severity of a is never higher    *)
(* than the severity of b in MINIMAL < MILD < MODERATE < SEVERE.           *)
(***************************************************************************)
C22_SeverityMonotone ==
    (Classified /\ grading.result.score \in ScoreDomain(grading.test_type))
        => \A a \in ScoreDomain(grading.test_type) :
               a <= grading.result.score
                   => ~Higher(SeverityOfTotal(grading.test_type, a),
                              grading.result.severity)

\* a GAD7 total in the third range, with lower ranges below it
C22_Witness ==
    /\ Classified
    /\ grading.test_type = "GAD7"
    /\ grading.result.score = 10
    /\ grading.result.severity = "MODERATE"
    /\ SeverityOfTotal("GAD7", 9) = "MILD"

(***************************************************************************)
(* C23.  Every severity calculate_test_score returns for a total of the    *)
(* score domain is a permitted value of TestResult.severity, a member of   *)
(* SEVERITY_LEVELS.                                                        *)
(***************************************************************************)
C23_SeverityPermitted ==
    (Classified /\ grading.result.score \in ScoreDomain(grading.test_type))
        => grading.result.severity \in SEVERITY_LEVELS

(***************************************************************************)
(* C24.  The three statements of the PHQ9 ranges (calculate_test_score,    *)
(* constants.PHQ9_RANGES, the seeded ScoringRange rows) give every total   *)
(* the same severity, and so do the two statements of the GAD7 ranges.     *)
(***************************************************************************)
C24_TablesAgree ==
    Classified =>
        /\ grading.test_type = "PHQ9" =>
              /\ FindSeverity(PHQ9_RANGES, grading.result.score) = grading.result.severity
              /\ FindSeverity(SeedRanges, grading.result.score) = grading.result.severity
        /\ grading.test_type = "GAD7" =>
              FindSeverity(GAD7_RANGES, grading.result.score) = grading.result.severity

\* a PHQ9 total at the seam between MILD and MODERATE, classified
C24_Witness ==
    /\ Classified
    /\ grading.test_type = "PHQ9"
    /\ grading.result.score = 10
    /\ FindSeverity(SeedRanges, 10) = "MODERATE"

(***************************************************************************)
(* Manual pagination: CustomPagination.get_paginated_response and          *)
(* utils.paginate_queryset.  A behaviour is one call on a queryset of      *)
(* distinct items, a page number and a page size.                          *)
(***************************************************************************)
MaxItems == 6
MaxPageSize == 3
MaxPage == 4

\* queryset[start:end] for 0 <= start <= end: the items at the positions
\* start .. end - 1 that exist
Slice(queryset, start, end) ==
    SubSeq(queryset, start + 1, IF end < Len(queryset) THEN end ELSE Len(queryset))

\* Faulty variant: one page too many when page_size divides the total.
TotalPagesPlusOne(total, page_size) == total \div page_size + 1

\* (total + page_size - 1) // page_size
TotalPages(total, page_size) == (total + page_size - 1) \div page_size

NoResponse == [status |-> "none"]

\* CustomPagination.get_paginated_response(queryset, page, page_size)
GetPaginatedResponse(queryset, page, page_size) ==
    LET total == Len(queryset)
        start == (page - 1) * page_size
        end   == start + page_size
    IN  [ status       |-> "returned",
          total        |-> total,
          page         |-> page,
          page_size    |-> page_size,
          total_pages  |-> TotalPages(total, page_size),
          results      |-> Slice(queryset, start, end),
          has_next     |-> end < total,
          has_previous |-> page > 1 ]

\* utils.paginate_queryset(queryset, page, page_size)
PaginateQueryset(queryset, page, page_size) ==
    LET start == (page - 1) * page_size
        end   == start + page_size
        total == Len(queryset)
    IN  [ status      |-> "returned",
          items       |-> Slice(queryset, start, end),
          total       |-> total,
          page        |-> page,
          page_size   |-> page_size,
          total_pages |-> TotalPages(total, page_size) ]

InitPager ==
    /\ pager \in { [ queryset  |-> [i \in 1..n |-> i],
                     page      |-> page,
                     page_size |-> page_size,
                     custom    |-> NoResponse,
                     helper    |-> NoResponse ] :
                     n \in 0..MaxItems, page \in 1..MaxPage,
                     page_size \in 1..MaxPageSize }
    /\ grading = <<>>
    /\ feed = <<>>
    /\ responses = <<>>
    /\ tokens = <<>>
    /\ history = <<>>
    /\ CoreIdle

CallCustomPagination ==
    /\ pager.custom = NoResponse
    /\ pager' = [pager EXCEPT !.custom =
                    GetPaginatedResponse(pager.queryset, pager.page, pager.page_size)]
    /\ UNCHANGED <<scoreVars, tests, calls, rateVars,
                   grading, feed, responses, tokens, history>>

CallPaginateQueryset ==
    /\ pager.helper = NoResponse
    /\ pager' = [pager EXCEPT !.helper =
                    PaginateQueryset(pager.queryset, pager.page, pager.page_size)]
    /\ UNCHANGED <<scoreVars, tests, calls, rateVars,
                   grading, feed, responses, tokens, history>>

NextPager == CallCustomPagination \/ CallPaginateQueryset

SpecPager == InitPager /\ [][NextPager]_vars

\* the least k with k * d >= n
Ceiling(n, d) == CHOOSE k \in 0..n : k * d >= n /\ \A h \in 0..(k - 1) : h * d < n

\* the results of the pages first..last, one after another
RECURSIVE PagesInOrder(_, _, _, _)
PagesInOrder(queryset, page_size, first, last) ==
    IF first > last THEN <<>>
    ELSE GetPaginatedResponse(queryset, first, page_size).results
         \o PagesInOrder(queryset, page_size, first + 1, last)

RECURSIVE ItemsInOrder(_, _, _, _)
ItemsInOrder(queryset, page_size, first, last) ==
    IF first > last THEN <<>>
    ELSE PaginateQueryset(queryset, first, page_size).items
         \o ItemsInOrder(queryset, page_size, first + 1, last)

(***************************************************************************)
(* C25.  For page_size >= 1 and any item count, both manual paginations    *)
(* report total_pages = ceiling(total / page_size); the slices of the      *)
(* pages 1..total_pages, one after another, are the queryset itself (so    *)
(* disjoint, in order, every item once); has_next holds exactly when       *)
(* page < total_pages and has_previous exactly when page > 1.              *)
(***************************************************************************)
C25_PagesPartition ==
    LET total == Len(pager.queryset)
        pages == Ceiling(total, pager.page_size)
    IN  /\ pager.custom # NoResponse =>
              /\ pager.custom.total_pages = pages
              /\ PagesInOrder(pager.queryset, pager.page_size, 1,
                              pager.custom.total_pages) = pager.queryset
              /\ pager.custom.results =
                     SubSeq(PagesInOrder(pager.queryset, pager.page_size, 1, pager.page),
                            Len(PagesInOrder(pager.queryset, pager.page_size, 1,
                                             pager.page - 1)) + 1,
                            Len(PagesInOrder(pager.queryset, pager.page_size, 1,
                                             pager.page)))
              /\ pager.custom.has_next <=> pager.page < pages
              /\ pager.custom.has_previous <=> pager.page > 1
        /\ pager.helper # NoResponse =>
              /\ pager.helper.total_pages = pages
              /\ ItemsInOrder(pager.queryset, pager.page_size, 1,
                              pager.helper.total_pages) = pager.queryset
              /\ pager.page <= pages => pager.helper.items # <<>>

\* the last, partly filled page of a queryset that page_size does not
\* divide, through both paginations
C25_Witness ==
    /\ pager.custom # NoResponse
    /\ pager.helper # NoResponse
    /\ Len(pager.queryset) = 5
    /\ pager.page_size = 2
    /\ pager.page = 3
    /\ pager.custom.results = <<5>>
    /\ pager.helper.items = <<5>>
    /\ ~pager.custom.has_next

(***************************************************************************)
(* CursorPagination.  paginate_queryset filters the queryset by the        *)
(* request's cursor, cuts it to page_size + 1 rows and hands the cut to    *)
(* PageNumberPagination.paginate_queryset, which returns the page the      *)
(* request's page number names (the first, no page number being sent) of   *)
(* a paginator with page_size rows per page.  get_paginated_response then  *)
(* looks for a row beyond page_size in the serialized page.  The source's  *)
(* page_size of 20 is scaled down to CursorPageSize.  A queryset is a      *)
(* sequence of rows, newest first.                                         *)
(***************************************************************************)
CursorPageSize == 2
MaxFeed == 4
MaxStamp == 3
MaxFetches == 2

NoCursor == <<>>

\* base64.b64encode(str(timestamp).encode()).decode()
EncodeCursor(timestamp) == <<"b64", StrOf(timestamp)>>

\* base64.b64decode(cursor.encode()).decode(): the text of the timestamp
DecodeCursor(cursor) == cursor[2]

\* the timestamp a text denotes, as the created_at__lt lookup reads it
ParseStamp(text) == CHOOSE n \in 0..(MaxStamp + 1) : StrOf(n) = text

\* queryset.filter(created_at__lt=created_at)
RECURSIVE FilterOlder(_, _)
FilterOlder(queryset, created_at) ==
    IF queryset = <<>> THEN <<>>
    ELSE IF Head(queryset).created_at < created_at
         THEN <<Head(queryset)>> \o FilterOlder(Tail(queryset), created_at)
         ELSE FilterOlder(Tail(queryset), created_at)

\* PageNumberPagination.paginate_queryset(queryset, request): page 1 of
\* Paginator(queryset, page_size)
FirstPageOf(queryset, page_size) == Slice(queryset, 0, page_size)

\* CursorPagination.paginate_queryset(queryset, request)
CursorPaginateQueryset(queryset, cursor) ==
    LET filtered == IF cursor # NoCursor
                    THEN FilterOlder(queryset, ParseStamp(DecodeCursor(cursor)))
                    ELSE queryset
    IN  FirstPageOf(Slice(filtered, 0, CursorPageSize + 1), CursorPageSize)

\* CursorPagination.get_paginated_response(data)
CursorPaginatedResponse(data) ==
    IF Len(data) > CursorPageSize
    THEN [ status      |-> "returned",
           next_cursor |-> EncodeCursor(data[Len(data) - 1].created_at),
           results     |-> SubSeq(data, 1, Len(data) - 1) ]
    ELSE [ status      |-> "returned",
           next_cursor |-> NoCursor,
           results     |-> data ]

\* the sequences of at most n timestamps, newest first
RECURSIVE NewestFirst(_)
NewestFirst(n) ==
    IF n = 0 THEN {<<>>}
    ELSE NewestFirst(n - 1) \cup
         { Append(q, t) : q \in { p \in NewestFirst(n - 1) : Len(p) = n - 1 },
                          t \in 1..MaxStamp }

Querysets ==
    { [i \in 1..Len(q) |-> [id |-> i, created_at |-> q[i]]] :
        q \in { p \in NewestFirst(MaxFeed) :
                  \A i \in 2..Len(p) : p[i] <= p[i - 1] } }

InitFeed ==
    /\ feed \in { [ queryset |-> q, cursor |-> NoCursor,
                    response |-> NoResponse, fetches |-> 0 ] : q \in Querysets }
    /\ grading = <<>>
    /\ pager = <<>>
    /\ responses = <<>>
    /\ tokens = <<>>
    /\ history = <<>>
    /\ CoreIdle

\* a request without a cursor: the first page
FetchFirst ==
    /\ feed.fetches < MaxFetches
    /\ feed' = [feed EXCEPT
                  !.cursor = NoCursor,
                  !.response = CursorPaginatedResponse(
                                   CursorPaginateQueryset(feed.queryset, NoCursor)),
                  !.fetches = @ + 1]
    /\ UNCHANGED <<scoreVars, tests, calls, rateVars,
                   grading, pager, responses, tokens, history>>

\* a request that carries a cursor: the one the last response returned, or
\* one the client holds for a timestamp of the queryset
FetchWithCursor ==
    /\ feed.fetches < MaxFetches
    /\ \E cursor \in { EncodeCursor(t) : t \in 1..MaxStamp }
                     \cup ( IF feed.response # NoResponse
                            THEN {feed.response.next_cursor} \ {NoCursor}
                            ELSE {} ) :
          feed' = [feed EXCEPT
                     !.cursor = cursor,
                     !.response = CursorPaginatedResponse(
                                      CursorPaginateQueryset(feed.queryset, cursor)),
                     !.fetches = @ + 1]
    /\ UNCHANGED <<scoreVars, tests, calls, rateVars,
                   grading, pager, responses, tokens, history>>

NextFeed == FetchFirst \/ FetchWithCursor

SpecFeed == InitFeed /\ [][NextFeed]_vars

\* the rows the request's cursor leaves in the queryset
Requested ==
    IF feed.cursor = NoCursor THEN feed.queryset
    ELSE FilterOlder(feed.queryset, ParseStamp(DecodeCursor(feed.cursor)))

(***************************************************************************)
(* C26.  With CursorPagination, whenever rows older than the last row of   *)
(* the returned page exist, the response carries a non-null next_cursor    *)
(* (from which the walk through the queryset continues).                   *)
(***************************************************************************)
C26_NextCursorWhenMore ==
    (feed.response # NoResponse /\ feed.response.results # <<>>)
        => LET last == feed.response.results[Len(feed.response.results)]
           IN  (\E i \in 1..Len(Requested) :
                    Requested[i].created_at < last.created_at)
                   => feed.response.next_cursor # NoCursor

(***************************************************************************)
(* cache_response.  The decorator keys the cache by the request's path     *)
(* and the user's id ('anonymous' without a login), returns the cached     *)
(* data on a hit and otherwise runs the view and stores its data with the  *)
(* timeout.  The view's data is tagged with the user and path it was       *)
(* computed for.  The source's timeout of 300 s is scaled down.            *)
(***************************************************************************)
ResponseTimeout == 2
MaxServed == 3

Anonymous == "anonymous"

\* request.user.id if request.user.is_authenticated else 'anonymous'
UserIds == {StrOf(1), StrOf(11)}
Users == UserIds \cup {Anonymous}

\* request.path
Paths == {"/r", "/r:1"}

\* Faulty variant: the key leaves the user out.
ViewCacheKeyShared(path, user) == "view_cache:" \o path

\* cache_key = f"view_cache:{request.path}:{user id or 'anonymous'}"
ViewCacheKey(path, user) == "view_cache:" \o path \o ":" \o user

ViewCacheKeys == { ViewCacheKey(path, user) : path \in Paths, user \in Users }

NoData == [present |-> FALSE]

\* cache.get(cache_key): None when the entry is missing or has expired
CacheGetOrNone(c, key, t) ==
    IF c[key].present /\ c[key].expires > t THEN c[key].value ELSE NoData

\* response = func(self, request, *args, **kwargs): the data the view
\* computes for this user on this path
ViewData(path, user, t) == [present |-> TRUE, user |-> user, path |-> path, at |-> t]

Served(path, user, data, hit) ==
    [path |-> path, user |-> user, data |-> data, hit |-> hit]

InitResponses ==
    /\ responses = <<>>
    /\ cache = [key \in ViewCacheKeys |-> Missing]
    /\ now = 0
    /\ debug = FALSE
    /\ workers = <<>>
    /\ log = <<>>
    /\ grading = <<>>
    /\ pager = <<>>
    /\ feed = <<>>
    /\ tokens = <<>>
    /\ history = <<>>
    /\ tests = <<>>
    /\ calls = <<>>
    /\ ScoreIdle

\* cached_response is not None: return Response(cached_response)
ServeHit(path, user) ==
    /\ Len(responses) < MaxServed
    /\ LET cached_response == CacheGetOrNone(cache, ViewCacheKey(path, user), now)
       IN  /\ cached_response # NoData
           /\ responses' = Append(responses, Served(path, user, cached_response, TRUE))
    /\ UNCHANGED <<scoreVars, tests, calls, debug, now, cache, workers, log,
                   grading, pager, feed, tokens, history>>

\* the view runs and its data is stored under the key
ServeMiss(path, user) ==
    /\ Len(responses) < MaxServed
    /\ CacheGetOrNone(cache, ViewCacheKey(path, user), now) = NoData
    /\ LET data == ViewData(path, user, now)
       IN  /\ cache' = CacheSet(cache, ViewCacheKey(path, user), data,
                                ResponseTimeout, now)
           /\ responses' = Append(responses, Served(path, user, data, FALSE))
    /\ UNCHANGED <<scoreVars, tests, calls, debug, now, workers, log,
                   grading, pager, feed, tokens, history>>

NextResponses ==
    \/ \E path \in Paths, user \in Users : ServeHit(path, user)
    \/ \E path \in Paths, user \in Users : ServeMiss(path, user)
    \/ Tick

SpecResponses == InitResponses /\ [][NextResponses]_vars

(***************************************************************************)
(* C27.  cache_response never hands one user a response computed for       *)
(* another: every cache hit returns data a request of the same user to     *)
(* the same path stored, and an anonymous request never receives data      *)
(* stored by an authenticated request.                                     *)
(***************************************************************************)
C27_NoCrossUserResponse ==
    \A i \in 1..Len(responses) :
        /\ responses[i].data.user = responses[i].user
        /\ responses[i].hit =>
              \E j \in 1..(i - 1) :
                  /\ ~responses[j].hit
                  /\ responses[j].user = responses[i].user
                  /\ responses[j].path = responses[i].path
                  /\ responses[j].data = responses[i].data
        /\ responses[i].user = Anonymous => responses[i].data.user \notin UserIds

\* user 1 filled the cache for a path, user 11 and an anonymous client
\* then asked for the same path, and user 1 was served from the cache
C27_Witness ==
    /\ Len(responses) = 3
    /\ responses[1].user = StrOf(1) /\ ~responses[1].hit
    /\ responses[2].user # StrOf(1) /\ responses[2].path = responses[1].path
    /\ responses[3].user = StrOf(1) /\ responses[3].hit
    /\ responses[3].path = responses[1].path

(***************************************************************************)
(* Tokens.  generate_token signs {'user_id', 'exp'} with settings.SECRET_KEY *)
(* (HS256); verify_token decodes with the same key and returns the user_id, *)
(* or None when PyJWT raises ExpiredSignatureError or any other            *)
(* InvalidTokenError.  A token is modelled by its payload and the          *)
(* signature over it; the clock and exp are in seconds, an hour being      *)
(* scaled to SecondsPerHour ticks.  At the very second of exp, PyJWT       *)
(* versions differ on whether the token has expired: both outcomes are     *)
(* kept.                                                                   *)
(***************************************************************************)
SecondsPerHour == 2
MaxExpiryHours == 1
MaxTokens == 2

SECRET_KEY == "settings.SECRET_KEY"
OtherKey == "another key"

\* the HMAC of the payload under the key
Signature(payload, key) == <<key, payload>>

\* jwt.encode(payload, key, algorithm='HS256')
JwtEncode(payload, key) ==
    [form |-> "jwt", alg |-> "HS256", payload |-> payload,
     signature |-> Signature(payload, key)]

Garbage == [form |-> "garbage"]

\* Faulty variant: the signature is not checked.
JwtDecodeUnverified(token, key, t, expired_at_exp) ==
    IF token.form # "jwt" THEN [raised |-> "DecodeError"]
    ELSE IF token.payload.exp < t \/ (token.payload.exp = t /\ expired_at_exp)
    THEN [raised |-> "ExpiredSignatureError"]
    ELSE [raised |-> "", payload |-> token.payload]

\* jwt.decode(token, key, algorithms=['HS256'])
JwtDecode(token, key, t, expired_at_exp) ==
    IF token.form # "jwt" THEN [raised |-> "DecodeError"]
    ELSE IF token.alg # "HS256" THEN [raised |-> "InvalidAlgorithmError"]
    ELSE IF token.signature # Signature(token.payload, key)
    THEN [raised |-> "InvalidSignatureError"]
    ELSE IF token.payload.exp < t \/ (token.payload.exp = t /\ expired_at_exp)
    THEN [raised |-> "ExpiredSignatureError"]
    ELSE [raised |-> "", payload |-> token.payload]

None == [is_none |-> TRUE]
Some(value) == [is_none |-> FALSE, value |-> value]

\* generate_token(user_id, expiry_hours) at time t
GenerateToken(user_id, expiry_hours, t) ==
    LET expiry  == t + expiry_hours * SecondsPerHour
        payload == [user_id |-> user_id, exp |-> expiry]
    IN  JwtEncode(payload, SECRET_KEY)

\* verify_token(token) at time t
VerifyToken(token, t, expired_at_exp) ==
    LET decoded == JwtDecode(token, SECRET_KEY, t, expired_at_exp)
    IN  IF decoded.raised = "" THEN Some(decoded.payload.user_id)
        ELSE None

NoCheck == [status |-> "none"]

TokenUserIds == {1, 2}

\* what can be presented in place of an issued token: the token itself, a
\* token with the same payload signed with another key, the token with
\* its user_id changed and the signature left, and text that is no token
Presentable(token) ==
    { token,
      JwtEncode(token.payload, OtherKey),
      [token EXCEPT !.payload.user_id = 3 - @],
      Garbage }

InitTokens ==
    /\ tokens = [issued |-> <<>>, check |-> NoCheck]
    /\ now = 0
    /\ debug = FALSE
    /\ cache = <<>>
    /\ workers = <<>>
    /\ log = <<>>
    /\ grading = <<>>
    /\ pager = <<>>
    /\ feed = <<>>
    /\ responses = <<>>
    /\ history = <<>>
    /\ tests = <<>>
    /\ calls = <<>>
    /\ ScoreIdle

Generate ==
    /\ Len(tokens.issued) < MaxTokens
    /\ \E user_id \in TokenUserIds, expiry_hours \in 0..MaxExpiryHours :
          tokens' = [tokens EXCEPT
                       !.issued = Append(@, GenerateToken(user_id, expiry_hours, now))]
    /\ UNCHANGED <<scoreVars, tests, calls, rateVars,
                   grading, pager, feed, responses, history>>

Verify ==
    /\ \E i \in 1..Len(tokens.issued) :
       \E token \in Presentable(tokens.issued[i]) :
       \E expired_at_exp \in BOOLEAN :
          tokens' = [tokens EXCEPT
                       !.check = [ status   |-> "verified",
                                   token    |-> token,
                                   at       |-> now,
                                   returned |-> VerifyToken(token, now, expired_at_exp) ]]
    /\ UNCHANGED <<scoreVars, tests, calls, rateVars,
                   grading, pager, feed, responses, history>>

NextTokens == Generate \/ Verify \/ Tick

SpecTokens == InitTokens /\ [][NextTokens]_vars

Genuine(token) == \E i \in 1..Len(tokens.issued) : tokens.issued[i] = token

(***************************************************************************)
(* C28.  verify_token of a generated token returns its user_id at every    *)
(* time before the token's expiry and None at every time after it; a       *)
(* malformed token or one signed with another key yields None, never an    *)
(* exception or a user id.                                                 *)
(***************************************************************************)
C28_TokenRoundTrip ==
    tokens.check # NoCheck =>
        LET token    == tokens.check.token
            returned == tokens.check.returned
        IN  /\ returned = None \/ \E u \in TokenUserIds : returned = Some(u)
            /\ Genuine(token) =>
                  /\ tokens.check.at < token.payload.exp
                        => returned = Some(token.payload.user_id)
                  /\ tokens.check.at > token.payload.exp => returned = None
            /\ ( \/ token.form # "jwt"
                 \/ token.signature # Signature(token.payload, SECRET_KEY) )
                  => returned = None

\* a token verified with success some time after its issue and before its
\* expiry
C28_Witness ==
    /\ tokens.check # NoCheck
    /\ Genuine(tokens.check.token)
    /\ tokens.check.at > 0
    /\ tokens.check.at < tokens.check.token.payload.exp
    /\ tokens.check.returned = Some(tokens.check.token.payload.user_id)

(***************************************************************************)
(* TestResult saves and the profile's test_history.  healmymind/apps.py    *)
(* ready() imports healmymind.signals inside try/except Exception; the     *)
(* module's receivers are registered as its body runs, after its imports.  *)
(* Its line `from users.models import UserProfile` succeeds only if        *)
(* users/models.py defines that name.  process_test_result, once           *)
(* registered, runs after every TestResult save and appends to the         *)
(* user's profile.test_history when the row was created.                   *)
(***************************************************************************)
MaxResults == 3

\* the model classes users/models.py defines
UsersModels == {"User"}

\* from users.models import UserProfile
SignalsImportSucceeds == "UserProfile" \in UsersModels

HistoryUsers == {1, 2}

\* the (score, severity) pairs the results are saved with
SavedOutcomes ==
    { [score |-> 3, severity |-> "MINIMAL"],
      [score |-> 12, severity |-> "MODERATE"],
      [score |-> 20, severity |-> "SEVERE"] }

\* the entry process_test_result appends (test id, test name and date left
\* out: one test, and the order of the list stands for the dates)
HistoryEntry(instance) == [score |-> instance.score, severity |-> instance.severity]

\* process_test_result(sender, instance, created)
ProcessTestResult(profiles, instance, created) ==
    IF created
    THEN [profiles EXCEPT ![instance.user] = Append(@, HistoryEntry(instance))]
    ELSE profiles

\* post_save.send: the receivers registered for TestResult run
PostSave(h, instance, created) ==
    IF h.connected THEN ProcessTestResult(h.profiles, instance, created)
    ELSE h.profiles

InitHistory ==
    /\ history = [ started   |-> FALSE,
                   connected |-> FALSE,
                   results   |-> <<>>,
                   profiles  |-> [u \in HistoryUsers |-> <<>>] ]
    /\ now = 0
    /\ debug = FALSE
    /\ cache = <<>>
    /\ workers = <<>>
    /\ log = <<>>
    /\ grading = <<>>
    /\ pager = <<>>
    /\ feed = <<>>
    /\ responses = <<>>
    /\ tokens = <<>>
    /\ tests = <<>>
    /\ calls = <<>>
    /\ ScoreIdle

\* healmymindConfig.ready()
Ready ==
    /\ ~history.started
    /\ history' = [history EXCEPT !.started = TRUE,
                                  !.connected = SignalsImportSucceeds]
    /\ UNCHANGED <<scoreVars, tests, calls, rateVars,
                   grading, pager, feed, responses, tokens>>

\* TestResult.objects.create(user=..., score=..., severity=...)
SaveNewResult ==
    /\ history.started
    /\ Len(history.results) < MaxResults
    /\ \E user \in HistoryUsers, o \in SavedOutcomes :
          LET instance == [user |-> user, score |-> o.score,
                           severity |-> o.severity, recommendations |-> FALSE]
          IN  history' = [history EXCEPT
                            !.results = Append(@, instance),
                            !.profiles = PostSave(history, instance, TRUE)]
    /\ UNCHANGED <<scoreVars, tests, calls, rateVars,
                   grading, pager, feed, responses, tokens>>

\* an existing TestResult is saved again (its recommendations filled in)
SaveExistingResult ==
    /\ history.started
    /\ \E i \in 1..Len(history.results) :
          /\ ~history.results[i].recommendations
          /\ LET instance == [history.results[i] EXCEPT !.recommendations = TRUE]
             IN  history' = [history EXCEPT
                               !.results[i] = instance,
                               !.profiles = PostSave(history, instance, FALSE)]
    /\ UNCHANGED <<scoreVars, tests, calls, rateVars,
                   grading, pager, feed, responses, tokens>>

NextHistory == Ready \/ SaveNewResult \/ SaveExistingResult

SpecHistory == InitHistory /\ [][NextHistory]_vars

\* the entries the results created for a user call for, in creation order
RECURSIVE EntriesFor(_, _)
EntriesFor(results, user) ==
    IF results = <<>> THEN <<>>
    ELSE IF Head(results).user = user
         THEN <<HistoryEntry(Head(results))>> \o EntriesFor(Tail(results), user)
         ELSE EntriesFor(Tail(results), user)

(***************************************************************************)
(* C29.  After any sequence of TestResult saves, each user's profile       *)
(* test_history holds exactly one entry per TestResult created for that    *)
(* user, in creation order, with that result's score and severity; saving  *)
(* an existing TestResult again adds none.                                 *)
(***************************************************************************)
C29_HistoryMatchesResults ==
    \A user \in HistoryUsers :
        history.profiles[user] = EntriesFor(history.results, user)

====
